---- MODULE Spec2Model ----
(***************************************************************************)
(* A model of rotkehlchen/db/dbhandler.py: the DBHandler accessor layer    *)
(* over one encrypted sqlite database file.                                *)
(*                                                                         *)
(* Every table is a sequence of rows in rowid order.  A handler is an      *)
(* operator from the connection's view of the tables (and its arguments)   *)
(* to the outcome of the call: the new view, whether the handler ended     *)
(* with conn.commit(), and what it returned or raised.                     *)
(***************************************************************************)
EXTENDS Integers, Sequences, FiniteSets, TLC

VARIABLES
    now,        \* the wall clock read by ts_now() / time.time()
    db,         \* the tables as seen through self.conn (uncommitted changes included)
    last,       \* the last handler call: its name, arguments, time, the tables
                \* it found and its outcome
    budget,     \* handler calls the run may still make
    pc,         \* position inside import_unencrypted ("idle" outside of it)
    conn,       \* what self.conn is connected to: "rdb", "temp" or "closed"
    files,      \* the files of user_data_dir and the temporary directory
    imp         \* import_unencrypted's arguments and the file it found on entry

vars == <<now, db, last, budget, pc, conn, files, imp>>

(***************************************************************************)
(* Bounds of the model.                                                    *)
(***************************************************************************)
MaxNow == 3
MaxCalls == 4
MaxCallsAll == 2
MaxRows == 2
MaxTradeId == 3
MaxTime == 2
MaxSalt == 3

(***************************************************************************)
(* Program constants.                                                      *)
(***************************************************************************)
ROTKEHLCHEN_DB_VERSION == 1
DEFAULT_UI_FLOATING_PRECISION == 2
DEFAULT_START_DATE == "01/08/2015"

\* rotkehlchen.constants.SUPPORTED_EXCHANGES: a fixed set of exchange names.
SUPPORTED_EXCHANGES == {"kraken", "poloniex"}

(***************************************************************************)
(* Python's str() and int() on the non-negative integers the handlers      *)
(* store, and str() / str_to_bool on booleans.                             *)
(***************************************************************************)
Digit(d) ==
    CASE d = 0 -> "0" [] d = 1 -> "1" [] d = 2 -> "2" [] d = 3 -> "3"
      [] d = 4 -> "4" [] d = 5 -> "5" [] d = 6 -> "6" [] d = 7 -> "7"
      [] d = 8 -> "8" [] d = 9 -> "9"

RECURSIVE str(_)
str(n) == IF n < 10 THEN Digit(n) ELSE str(n \div 10) \o Digit(n % 10)

\* int(s) of a decimal string: the number whose decimal form s is.
int(s) == CHOOSE n \in 0..99 : str(n) = s

bool_str(b) == IF b THEN "True" ELSE "False"

\* Line 19 compares its argument with the string 'True'; anything else,
\* a row tuple included, gives False.
str_to_bool(s) == IF s = "True" THEN TRUE ELSE FALSE

(***************************************************************************)
(* SQL statements over a table (a sequence of rows).                       *)
(***************************************************************************)
Range(s) == {s[i] : i \in 1..Len(s)}

\* SELECT * ... WHERE column 1 = key
SelectByName(table, key) == SelectSeq(table, LAMBDA r : r[1] = key)

\* SELECT value FROM settings WHERE name = key: fetchall() gives a list of
\* 1-tuples.
SelectValue(table, key) ==
    LET rows == SelectByName(table, key)
    IN  [i \in 1..Len(rows) |-> <<rows[i][2]>>]

\* DELETE ... WHERE column 1 = key
DeleteByName(table, key) == SelectSeq(table, LAMBDA r : r[1] # key)

\* INSERT OR REPLACE on a table whose column 1 is unique: the row of that
\* name is dropped and the new row gets a fresh rowid.
InsertOrReplace(table, row) == Append(DeleteByName(table, row[1]), row)

(***************************************************************************)
(* The state after DBHandler.__init__ on a new file: the tables exist and  *)
(* are empty but for the version setting.                                  *)
(***************************************************************************)
NewDB ==
    [settings |-> << <<"version", str(ROTKEHLCHEN_DB_VERSION)>> >>,
     multisettings |-> <<>>,
     timed_balances |-> <<>>,
     timed_location_data |-> <<>>,
     blockchain_accounts |-> <<>>,
     current_balances |-> <<>>,
     user_credentials |-> <<>>,
     trades |-> <<>>,
     trade_seq |-> 0]

\* What a handler call comes to: it returns after conn.commit(), it returns
\* its failure pair without committing, or it raises.
Returned(d, val) == [db |-> d, commit |-> TRUE, ok |-> TRUE, exc |-> "none", val |-> val]
Failed(d, val) == [db |-> d, commit |-> FALSE, ok |-> FALSE, exc |-> "none", val |-> val]
Raised(d, e) == [db |-> d, commit |-> FALSE, ok |-> FALSE, exc |-> e, val |-> "none"]

(***************************************************************************)
(* Settings store.                                                         *)
(***************************************************************************)
update_last_write(d, t) ==
    [d EXCEPT !.settings = InsertOrReplace(@, <<"last_write_ts", str(t)>>)]

get_last_write_ts(d) ==
    LET query == SelectValue(d.settings, "last_write_ts")
    IN  IF Len(query) = 0 THEN 0 ELSE int(query[1][1])

update_last_data_upload_ts(d, t) ==
    Returned([d EXCEPT !.settings =
                  InsertOrReplace(@, <<"last_data_upload_ts", str(t)>>)], "None")

get_last_data_upload_ts(d) ==
    LET query == SelectValue(d.settings, "last_data_upload_ts")
    IN  IF Len(query) = 0 THEN 0 ELSE int(query[1][1])

update_premium_sync(d, should_sync) ==
    Returned([d EXCEPT !.settings =
                  InsertOrReplace(@, <<"premium_should_sync", bool_str(should_sync)>>)],
             "None")

\* Line 151 hands str_to_bool the first row, query[0], not its column.
get_premium_sync(d) ==
    LET query == SelectValue(d.settings, "premium_should_sync")
    IN  IF Len(query) = 0 THEN FALSE ELSE str_to_bool(query[1])

get_main_currency(d) ==
    LET query == SelectValue(d.settings, "main_currency")
    IN  IF Len(query) = 0 THEN "USD" ELSE query[1][1]

set_main_currency(d, t, currency) ==
    Returned(update_last_write(
                 [d EXCEPT !.settings = InsertOrReplace(@, <<"main_currency", currency>>)],
                 t),
             "None")

\* executemany over the items of the settings dict, in the dict's order.
RECURSIVE UpsertAll(_, _)
UpsertAll(table, items) ==
    IF items = <<>> THEN table
    ELSE UpsertAll(InsertOrReplace(table, Head(items)), Tail(items))

set_settings(d, t, settings) ==
    Returned(update_last_write([d EXCEPT !.settings = UpsertAll(@, settings)], t),
             "None")

\* What a handler that only reads comes to: nothing is committed.
Fetched(d, val) == [db |-> d, commit |-> FALSE, ok |-> TRUE, exc |-> "none", val |-> val]

\* A Python value of the returned dict is written as its repr(): the text 4
\* is '4' and the integer 4 is 4.
repr(s) == "'" \o s \o "'"

\* Lines 161-172: the key and the value a settings row gives the dict.
SettingKey(q) == IF q[1] = "version" THEN "db_version" ELSE q[1]

SettingValue(q) ==
    IF q[1] \in {"version", "last_write_ts", "last_data_upload_ts",
                 "ui_floating_precision"}
    THEN str(int(q[2]))
    ELSE IF q[1] = "premium_should_sync"
    THEN bool_str(str_to_bool(q[2]))
    ELSE repr(q[2])

\* Lines 160-172: the dict of the rows, a later row overwriting an earlier
\* one of the same key.
SettingsOfRows(rows) ==
    LET keys == {SettingKey(rows[i]) : i \in 1..Len(rows)}
        lastOf(k) == CHOOSE i \in 1..Len(rows) :
                         /\ SettingKey(rows[i]) = k
                         /\ \A j \in (i + 1)..Len(rows) : SettingKey(rows[j]) # k
    IN  [k \in keys |-> SettingValue(rows[lastOf(k)])]

\* Lines 175-180: the defaults of the keys that are not stored.
SettingDefaults ==
    [historical_data_start |-> repr(DEFAULT_START_DATE),
     eth_rpc_port |-> repr("8545"),
     ui_floating_precision |-> str(DEFAULT_UI_FLOATING_PRECISION)]

WithDefaults(settings) ==
    [k \in DOMAIN settings \cup DOMAIN SettingDefaults |->
        IF k \in DOMAIN settings THEN settings[k] ELSE SettingDefaults[k]]

\* The defaults written back to the settings table and committed.
get_settings_persisting_defaults(d) ==
    LET settings == SettingsOfRows(d.settings)
        missing == SelectSeq(<< <<"historical_data_start", DEFAULT_START_DATE>>,
                                <<"eth_rpc_port", "8545">>,
                                <<"ui_floating_precision",
                                  str(DEFAULT_UI_FLOATING_PRECISION)>> >>,
                             LAMBDA row : row[1] \notin DOMAIN settings)
    IN  Returned([d EXCEPT !.settings = UpsertAll(@, missing)],
                 WithDefaults(settings))

get_settings(d) == Fetched(d, WithDefaults(SettingsOfRows(d.settings)))

(***************************************************************************)
(* Multi-value settings store.                                             *)
(***************************************************************************)
add_to_ignored_assets(d, asset) ==
    Returned([d EXCEPT !.multisettings = Append(@, <<"ignored_asset", asset>>)], "None")

\* A delete that stops at the first row of that value.
remove_from_ignored_assets_first_only(d, asset) ==
    LET hits == {i \in 1..Len(d.multisettings) :
                    d.multisettings[i] = <<"ignored_asset", asset>>}
        first == IF hits = {} THEN 0 ELSE CHOOSE i \in hits : \A j \in hits : i <= j
    IN  Returned([d EXCEPT !.multisettings =
                      [i \in 1..(Len(@) - (IF first = 0 THEN 0 ELSE 1)) |->
                          IF first = 0 \/ i < first THEN @[i] ELSE @[i + 1]]],
                 "None")

\* A delete that matches the value in any category.
remove_from_ignored_assets_any_category(d, asset) ==
    Returned([d EXCEPT !.multisettings = SelectSeq(@, LAMBDA r : r[2] # asset)], "None")

remove_from_ignored_assets(d, asset) ==
    Returned([d EXCEPT !.multisettings =
                  SelectSeq(@, LAMBDA r : ~(r[1] = "ignored_asset" /\ r[2] = asset))],
             "None")

\* SELECT value FROM multisettings WHERE name = category, as [q[0] for q in query]
MultiValues(d, category) ==
    LET rows == SelectByName(d.multisettings, category)
    IN  [i \in 1..Len(rows) |-> rows[i][2]]

get_ignored_assets(d) == MultiValues(d, "ignored_asset")

\* The insert without the delete of the previous list.
write_owned_tokens_merging(d, t, tokens) ==
    Returned(update_last_write(
                 [d EXCEPT !.multisettings =
                      @ \o [i \in 1..Len(tokens) |-> <<"eth_token", tokens[i]>>]], t),
             "None")

write_owned_tokens(d, t, tokens) ==
    LET deleted == DeleteByName(d.multisettings, "eth_token")
        inserted == deleted \o [i \in 1..Len(tokens) |-> <<"eth_token", tokens[i]>>]
    IN  Returned(update_last_write([d EXCEPT !.multisettings = inserted], t), "None")

get_owned_tokens(d) == MultiValues(d, "eth_token")

(***************************************************************************)
(* Balances time series and location snapshots.                            *)
(***************************************************************************)
add_multiple_balances(d, t, balances) ==
    Returned(update_last_write([d EXCEPT !.timed_balances = @ \o balances], t), "None")

add_multiple_location_data(d, t, location_data) ==
    Returned(update_last_write([d EXCEPT !.timed_location_data = @ \o location_data], t),
             "None")

\* The snapshot written without the closing 'total' row.
write_balances_data_without_total(d, t, data) ==
    LET ts == t
        balances == [i \in 1..Len(data.assets) |->
                        <<ts, data.assets[i][1], str(data.assets[i][2]),
                          str(data.assets[i][3])>>]
        locations == [i \in 1..Len(data.location) |->
                         <<ts, data.location[i][1], str(data.location[i][2])>>]
        first == add_multiple_balances(d, t, balances)
    IN  add_multiple_location_data(first.db, t, locations)

\* data: the snapshot's asset entries <<asset, amount, usd_value>> in the
\* dict's order, its 'location' entries <<location, usd_value>> and net_usd.
write_balances_data(d, t, data) ==
    LET ts == t
        balances == [i \in 1..Len(data.assets) |->
                        <<ts, data.assets[i][1], str(data.assets[i][2]),
                          str(data.assets[i][3])>>]
        locations == [i \in 1..Len(data.location) |->
                         <<ts, data.location[i][1], str(data.location[i][2])>>]
                     \o << <<ts, "total", str(data.net_usd)>> >>
        first == add_multiple_balances(d, t, balances)
    IN  add_multiple_location_data(first.db, t, locations)

(***************************************************************************)
(* Blockchain accounts and fiat balances.                                  *)
(***************************************************************************)
add_blockchain_account(d, t, blockchain, account) ==
    Returned(update_last_write(
                 [d EXCEPT !.blockchain_accounts = Append(@, <<blockchain, account>>)], t),
             "None")

\* The delete without the existence check of lines 302-310.
remove_blockchain_account_unchecked(d, t, blockchain, account) ==
    Returned(update_last_write(
                 [d EXCEPT !.blockchain_accounts =
                      SelectSeq(@, LAMBDA r : ~(r[1] = blockchain /\ r[2] = account))], t),
             "None")

\* A delete that matches the account alone.
remove_blockchain_account_any_chain(d, t, blockchain, account) ==
    IF Len(SelectSeq(d.blockchain_accounts,
                     LAMBDA r : r[1] = blockchain /\ r[2] = account)) = 0
    THEN Raised(d, "InputError")
    ELSE Returned(update_last_write(
                      [d EXCEPT !.blockchain_accounts =
                           SelectSeq(@, LAMBDA r : r[2] # account)], t),
                  "None")

remove_blockchain_account(d, t, blockchain, account) ==
    LET matches(r) == r[1] = blockchain /\ r[2] = account
        count == Len(SelectSeq(d.blockchain_accounts, matches))
    IN  IF count = 0
        THEN Raised(d, "InputError")
        ELSE Returned(update_last_write(
                          [d EXCEPT !.blockchain_accounts =
                               SelectSeq(@, LAMBDA r : ~matches(r))], t),
                      "None")

\* The dict blockchain -> list of accounts, in row order.
get_blockchain_accounts(d) ==
    LET query == d.blockchain_accounts
    IN  [b \in {query[i][1] : i \in 1..Len(query)} |->
            LET rows == SelectByName(query, b)
            IN  [i \in 1..Len(rows) |-> rows[i][2]]]

add_fiat_balance(d, t, currency, amount) ==
    Returned(update_last_write(
                 [d EXCEPT !.current_balances = InsertOrReplace(@, <<currency, amount>>)], t),
             "None")

remove_fiat_balance(d, t, currency) ==
    Returned(update_last_write(
                 [d EXCEPT !.current_balances = DeleteByName(@, currency)], t),
             "None")

get_fiat_balances(d) ==
    LET query == d.current_balances
    IN  [a \in {query[i][1] : i \in 1..Len(query)} |-> SelectByName(query, a)[1][2]]

(***************************************************************************)
(* Exchange credentials.  user_credentials is unique by name, so a plain   *)
(* INSERT of a stored name fails with the engine's IntegrityError.         *)
(***************************************************************************)
\* The schema's uniqueness of user_credentials.name: an INSERT of a stored
\* name is refused.
NameTaken(table, name) == Len(SelectByName(table, name)) > 0

\* The insert and its commit before the check of the name.
add_exchange_check_after_insert(d, t, name, api_key, api_secret) ==
    LET inserted == update_last_write(
                        [d EXCEPT !.user_credentials =
                             Append(@, <<name, api_key, api_secret>>)], t)
    IN  IF NameTaken(d.user_credentials, name)
        THEN Raised(d, "IntegrityError")
        ELSE IF name \notin SUPPORTED_EXCHANGES
        THEN [db |-> inserted, commit |-> TRUE, ok |-> FALSE, exc |-> "InputError",
              val |-> "none"]
        ELSE Returned(inserted, "None")

\* The insert without the check of the name.
add_exchange_unchecked(d, t, name, api_key, api_secret) ==
    IF NameTaken(d.user_credentials, name)
    THEN Raised(d, "IntegrityError")
    ELSE Returned(update_last_write(
                      [d EXCEPT !.user_credentials =
                           Append(@, <<name, api_key, api_secret>>)], t),
                  "None")

add_exchange(d, t, name, api_key, api_secret) ==
    IF name \notin SUPPORTED_EXCHANGES
    THEN Raised(d, "InputError")
    ELSE IF NameTaken(d.user_credentials, name)
    THEN Raised(d, "IntegrityError")
    ELSE Returned(update_last_write(
                      [d EXCEPT !.user_credentials =
                           Append(@, <<name, api_key, api_secret>>)], t),
                  "None")

remove_exchange(d, t, name) ==
    Returned(update_last_write(
                 [d EXCEPT !.user_credentials = DeleteByName(@, name)], t),
             "None")

\* Line 427 compares the whole row, entry, with the string 'rotkehlchen'.
get_exchange_secrets(d) ==
    LET result == d.user_credentials
        kept == SelectSeq(result, LAMBDA entry : ~(entry = "rotkehlchen"))
    IN  [name \in {kept[i][1] : i \in 1..Len(kept)} |->
            LET entry == SelectByName(kept, name)[Len(SelectByName(kept, name))]
            IN  [api_key |-> entry[2], api_secret |-> entry[3]]]

\* The premium write followed by the update_last_write() that line 594
\* leaves commented out.
set_rotkehlchen_premium_and_last_write(d, t, api_key, api_secret) ==
    Returned(update_last_write(
                 [d EXCEPT !.user_credentials =
                      InsertOrReplace(@, <<"rotkehlchen", api_key, api_secret>>)], t),
             "None")

set_rotkehlchen_premium(d, t, api_key, api_secret) ==
    Returned([d EXCEPT !.user_credentials =
                  InsertOrReplace(@, <<"rotkehlchen", api_key, api_secret>>)],
             "None")

\* The (api_key, api_secret) row when there is exactly one, else None.
get_rotkehlchen_premium(d) ==
    LET rows == SelectByName(d.user_credentials, "rotkehlchen")
    IN  IF Len(rows) = 1 THEN <<rows[1][2], rows[1][3]>> ELSE <<>>

(***************************************************************************)
(* External trades.  trades.id is auto-increment: trade_seq is the         *)
(* largest id handed out so far.                                           *)
(***************************************************************************)
add_external_trade(d, trade) ==
    LET id == d.trade_seq + 1
        row == [id |-> id] @@ trade
    IN  Returned([d EXCEPT !.trades = Append(@, row), !.trade_seq = id], "None")

\* An edit that inserts the trade when no row has the id.
edit_external_trade_upsert(d, trade_id, trade) ==
    IF Len(SelectSeq(d.trades, LAMBDA r : r.id = trade_id)) = 0
    THEN Returned([d EXCEPT !.trades = Append(@, [id |-> trade_id] @@ trade)],
                  <<FALSE, "Tried to edit non existing external trade id">>)
    ELSE Returned([d EXCEPT !.trades =
                       [i \in 1..Len(d.trades) |->
                           IF d.trades[i].id = trade_id
                           THEN [id |-> trade_id] @@ trade
                           ELSE d.trades[i]]],
                  <<TRUE, "">>)

\* An edit that returns after the UPDATE, without the commit.
edit_external_trade_uncommitted(d, trade_id, trade) ==
    LET rowcount == Len(SelectSeq(d.trades, LAMBDA r : r.id = trade_id))
        updated == [i \in 1..Len(d.trades) |->
                       IF d.trades[i].id = trade_id
                       THEN [id |-> trade_id] @@ trade
                       ELSE d.trades[i]]
    IN  IF rowcount = 0
        THEN Failed(d, <<FALSE, "Tried to edit non existing external trade id">>)
        ELSE [db |-> [d EXCEPT !.trades = updated], commit |-> FALSE, ok |-> TRUE,
              exc |-> "none", val |-> <<TRUE, "">>]

edit_external_trade(d, trade_id, trade) ==
    LET rowcount == Len(SelectSeq(d.trades, LAMBDA r : r.id = trade_id))
        updated == [i \in 1..Len(d.trades) |->
                       IF d.trades[i].id = trade_id
                       THEN [id |-> trade_id] @@ trade
                       ELSE d.trades[i]]
    IN  IF rowcount = 0
        THEN Failed(d, <<FALSE, "Tried to edit non existing external trade id">>)
        ELSE Returned([d EXCEPT !.trades = updated], <<TRUE, "">>)

\* A delete whose WHERE clause is id >= ?.
delete_external_trade_from_id(d, trade_id) ==
    IF Len(SelectSeq(d.trades, LAMBDA r : r.id >= trade_id)) = 0
    THEN Failed(d, <<FALSE, "Tried to delete non-existing external trade">>)
    ELSE Returned([d EXCEPT !.trades = SelectSeq(@, LAMBDA r : r.id < trade_id)],
                  <<TRUE, "">>)

delete_external_trade(d, trade_id) ==
    LET rowcount == Len(SelectSeq(d.trades, LAMBDA r : r.id = trade_id))
    IN  IF rowcount = 0
        THEN Failed(d, <<FALSE, "Tried to delete non-existing external trade">>)
        ELSE Returned([d EXCEPT !.trades = SelectSeq(@, LAMBDA r : r.id # trade_id)],
                      <<TRUE, "">>)

\* An optional timestamp: None, or the number given.
None == <<>>
Some(n) == <<n>>

\* Python's truth value of an optional integer: None and 0 are false.
Truthy(x) == x # None /\ x[1] # 0

\* ORDER BY time ASC over rows in rowid order (rows of equal time stay in
\* rowid order).
RECURSIVE OrderByTime(_)
OrderByTime(rows) ==
    IF rows = <<>> THEN <<>>
    ELSE LET least == CHOOSE i \in 1..Len(rows) :
                          /\ \A j \in 1..Len(rows) : rows[i].time <= rows[j].time
                          /\ \A j \in 1..(i - 1) : rows[j].time # rows[i].time
             rest == [j \in 1..(Len(rows) - 1) |-> IF j < least THEN rows[j] ELSE rows[j + 1]]
         IN  <<rows[least]>> \o OrderByTime(rest)

\* The WHERE clause built by lines 540-551.
TradeSelected(r, from_ts, to_ts) ==
    /\ r.location = "external"
    /\ IF Truthy(from_ts)
       THEN /\ r.time >= from_ts[1]
            /\ (Truthy(to_ts) => r.time <= to_ts[1])
       ELSE Truthy(to_ts) => r.time <= to_ts[1]

get_external_trades(d, from_ts, to_ts) ==
    LET results == OrderByTime(SelectSeq(d.trades,
                                         LAMBDA r : TradeSelected(r, from_ts, to_ts)))
    IN  [i \in 1..Len(results) |->
            [id |-> results[i].id, timestamp |-> results[i].time,
             location |-> results[i].location, pair |-> results[i].pair,
             type |-> results[i].type, amount |-> results[i].amount,
             rate |-> results[i].rate, fee |-> results[i].fee,
             fee_currency |-> results[i].fee_currency, link |-> results[i].link,
             notes |-> results[i].notes]]

(***************************************************************************)
(* The files: rotkehlchen.db, rotkehlchen_temp_backup.db and temp.db of    *)
(* the temporary directory.  An encrypted file holds its tables, the key   *)
(* it was written with and the salt the engine drew for it.                *)
(***************************************************************************)
Absent == [kind |-> "absent"]
Partial(salt) == [kind |-> "partial", salt |-> salt]
Garbage == [kind |-> "garbage"]
Plain(d) == [kind |-> "plain", data |-> d]
Encrypted(d, key, salt) == [kind |-> "encrypted", data |-> d, key |-> key, salt |-> salt]

\* conn.commit() through a connection to rotkehlchen.db
Commit(fs, d) == [fs EXCEPT !.rdb.data = d]

(***************************************************************************)
(* DBHandler(user_data_dir, username, password): connect, the schema       *)
(* script, the version row and the commit.  The engine reads nothing until *)
(* the script runs; the script raises DatabaseError on a file the key does *)
(* not decrypt, and on a new file creates the tables.                      *)
(***************************************************************************)
\* INSERT OR IGNORE on a table whose column 1 is unique
InsertOrIgnore(table, row) ==
    IF Len(SelectByName(table, row[1])) > 0 THEN table ELSE Append(table, row)

\* A file the key does not decrypt is overwritten before the error is raised.
DBHandler_clobbering(fs, password) ==
    IF fs.rdb.kind = "absent"
    THEN [files |-> [fs EXCEPT !.rdb = Encrypted(NewDB, password, fs.salt + 1),
                               !.salt = fs.salt + 1],
          ok |-> TRUE, exc |-> "none"]
    ELSE IF fs.rdb.kind = "encrypted" /\ fs.rdb.key = password
    THEN [files |-> Commit(fs, [fs.rdb.data EXCEPT !.settings =
                         InsertOrIgnore(@, <<"version", str(ROTKEHLCHEN_DB_VERSION)>>)]),
          ok |-> TRUE, exc |-> "none"]
    ELSE [files |-> [fs EXCEPT !.rdb = Garbage], ok |-> FALSE,
          exc |-> "AuthenticationError"]

DBHandler(fs, password) ==
    IF fs.rdb.kind = "absent"
    THEN [files |-> [fs EXCEPT !.rdb = Encrypted(NewDB, password, fs.salt + 1),
                               !.salt = fs.salt + 1],
          ok |-> TRUE, exc |-> "none"]
    ELSE IF fs.rdb.kind = "encrypted" /\ fs.rdb.key = password
    THEN [files |-> Commit(fs, [fs.rdb.data EXCEPT !.settings =
                         InsertOrIgnore(@, <<"version", str(ROTKEHLCHEN_DB_VERSION)>>)]),
          ok |-> TRUE, exc |-> "none"]
    ELSE [files |-> fs, ok |-> FALSE, exc |-> "AuthenticationError"]

(***************************************************************************)
(* import_unencrypted, statement by statement.                             *)
(***************************************************************************)
\* The original removed before it is copied.
ImportOrder_RemoveBeforeCopy ==
    <<"remove", "copy", "write", "connect_temp", "script", "disconnect",
      "reconnect", "remove_backup">>

\* The statements in the order lines 66-94 run them.
ImportOrder ==
    <<"copy", "remove", "write", "connect_temp", "script", "disconnect",
      "reconnect", "remove_backup">>

StepAfter(step) ==
    LET i == CHOOSE k \in 1..Len(ImportOrder) : ImportOrder[k] = step
    IN  IF i = Len(ImportOrder) THEN "idle" ELSE ImportOrder[i + 1]

\* shutil.copy2(rdbpath, backup)
BackupCopy(fs) == [fs EXCEPT !.backup = fs.rdb]

\* os.remove(rdbpath)
RemoveOriginal(fs) == [fs EXCEPT !.rdb = Absent]

\* open(tempdbpath, 'wb') and f.write(unencrypted_db_data)
WriteTemp(fs, data) == [fs EXCEPT !.temp = data]

\* ATTACH ... AS encrypted KEY password; sqlcipher_export; DETACH
ExportEncrypted(fs, password) ==
    [fs EXCEPT !.rdb = Encrypted(fs.temp.data, password, fs.salt + 1),
               !.salt = fs.salt + 1]

\* The script stopped after ATTACH created the file and before the export
\* was complete.
ExportPartial(fs) == [fs EXCEPT !.rdb = Partial(fs.salt + 1), !.salt = fs.salt + 1]

\* A cleanup that takes the backup along with the temporary directory.
LeaveTempDir_DroppingBackup(fs) == [fs EXCEPT !.temp = Absent, !.backup = Absent]

\* Leaving the with block, by its end or by an exception: the temporary
\* directory goes, and nothing else does.
LeaveTempDir(fs) == [fs EXCEPT !.temp = Absent]

\* os.remove(backup)
RemoveBackup(fs) == [fs EXCEPT !.backup = Absent]

(***************************************************************************)
(* What the callers pass.                                                  *)
(***************************************************************************)
Currencies == {"EUR", "USD"}
SettingsDicts ==
    { << <<"ui_floating_precision", "4">> >>,
      << <<"eth_rpc_port", "8546">>, <<"historical_data_start", "01/01/2016">> >> }
Assets == {"BTC", "GNO"}
TokenLists == UNION {[1..n -> Assets] : n \in 0..MaxRows}
Blockchains == {"ETH", "BTC"}
Accounts == {"0xabc", "0xdef"}
FiatAmounts == {"10"}
ExchangeNames == SUPPORTED_EXCHANGES \cup {"rotkehlchen", "nosuchexchange"}
ApiKeys == {"key1", "key2"}
ApiSecrets == {"secret"}
Times == 0..MaxTime
Locations == {"external", "kraken"}
Trade(time, location) ==
    [time |-> time, location |-> location, pair |-> "BTC_EUR", type |-> "buy",
     amount |-> "1", rate |-> "100", fee |-> "0", fee_currency |-> "EUR",
     link |-> "", notes |-> ""]
Trades == {Trade(t, l) : t \in Times, l \in Locations}
TradeIds == 1..MaxTradeId
OptionalTimes == {None} \cup {Some(t) : t \in Times}
BalanceLists == { << <<1, "BTC", "1", "100">> >>, << <<2, "ETH", "2", "20">> >> }
LocationLists == { << <<1, "kraken", "100">> >>, << <<2, "total", "120">> >> }
Snapshots ==
    { [assets |-> <<>>, location |-> <<>>, net_usd |-> 0],
      [assets |-> << <<"BTC", 1, 100>> >>, location |-> << <<"kraken", 100>> >>,
       net_usd |-> 100],
      [assets |-> << <<"BTC", 1, 100>>, <<"ETH", 2, 20>> >>,
       location |-> << <<"kraken", 100>>, <<"blockchain", 20>> >>, net_usd |-> 120] }
Passwords == {"pw1", "pw2"}
ImportedDB == set_main_currency(NewDB, 1, "EUR").db
ImportData == {Plain(NewDB), Plain(ImportedDB), Garbage}

(***************************************************************************)
(* A handler call on an open connection to rotkehlchen.db, with outcome r. *)
(***************************************************************************)
Call(op, args, r) ==
    /\ pc = "idle"
    /\ conn = "rdb"
    /\ budget > 0
    /\ budget' = budget - 1
    /\ db' = r.db
    /\ files' = IF r.commit THEN Commit(files, r.db) ELSE files
    /\ last' = [op |-> op, args |-> args, at |-> now, before |-> db,
                commit |-> r.commit, ok |-> r.ok, exc |-> r.exc, val |-> r.val]
    /\ UNCHANGED <<now, pc, conn, imp>>

Tick ==
    /\ now < MaxNow
    /\ now' = now + 1
    /\ UNCHANGED <<db, last, budget, pc, conn, files, imp>>

UpdateLastDataUploadTs ==
    Call("update_last_data_upload_ts", <<>>, update_last_data_upload_ts(db, now))

UpdatePremiumSync ==
    \E b \in BOOLEAN :
        Call("update_premium_sync", <<b>>, update_premium_sync(db, b))

SetMainCurrency ==
    \E c \in Currencies :
        Call("set_main_currency", <<c>>, set_main_currency(db, now, c))

SetSettings ==
    \E s \in SettingsDicts :
        Call("set_settings", <<s>>, set_settings(db, now, s))

GetSettings == Call("get_settings", <<>>, get_settings(db))

AddToIgnoredAssets ==
    \E a \in Assets :
        /\ Len(db.multisettings) < 2 * MaxRows
        /\ Call("add_to_ignored_assets", <<a>>, add_to_ignored_assets(db, a))

RemoveFromIgnoredAssets ==
    \E a \in Assets :
        Call("remove_from_ignored_assets", <<a>>, remove_from_ignored_assets(db, a))

WriteOwnedTokens ==
    \E tokens \in TokenLists :
        Call("write_owned_tokens", <<tokens>>, write_owned_tokens(db, now, tokens))

AddMultipleBalances ==
    \E b \in BalanceLists :
        /\ Len(db.timed_balances) < MaxRows
        /\ Call("add_multiple_balances", <<b>>, add_multiple_balances(db, now, b))

AddMultipleLocationData ==
    \E l \in LocationLists :
        /\ Len(db.timed_location_data) < MaxRows
        /\ Call("add_multiple_location_data", <<l>>,
                add_multiple_location_data(db, now, l))

WriteBalancesData ==
    \E data \in Snapshots :
        /\ Len(db.timed_balances) < MaxRows
        /\ Len(db.timed_location_data) < MaxRows
        /\ Call("write_balances_data", <<data>>, write_balances_data(db, now, data))

AddBlockchainAccount ==
    \E b \in Blockchains, a \in Accounts :
        /\ Len(db.blockchain_accounts) <= MaxRows
        /\ Call("add_blockchain_account", <<b, a>>,
                add_blockchain_account(db, now, b, a))

RemoveBlockchainAccount ==
    \E b \in Blockchains, a \in Accounts :
        Call("remove_blockchain_account", <<b, a>>,
             remove_blockchain_account(db, now, b, a))

AddFiatBalance ==
    \E c \in Currencies, amount \in FiatAmounts :
        Call("add_fiat_balance", <<c, amount>>, add_fiat_balance(db, now, c, amount))

RemoveFiatBalance ==
    \E c \in Currencies :
        Call("remove_fiat_balance", <<c>>, remove_fiat_balance(db, now, c))

AddExchange ==
    \E n \in ExchangeNames, k \in ApiKeys, sec \in ApiSecrets :
        Call("add_exchange", <<n, k, sec>>, add_exchange(db, now, n, k, sec))

RemoveExchange ==
    \E n \in ExchangeNames :
        Call("remove_exchange", <<n>>, remove_exchange(db, now, n))

SetRotkehlchenPremium ==
    \E k \in ApiKeys, sec \in ApiSecrets :
        Call("set_rotkehlchen_premium", <<k, sec>>,
             set_rotkehlchen_premium(db, now, k, sec))

AddExternalTrade ==
    \E trade \in Trades :
        /\ db.trade_seq < MaxTradeId
        /\ Call("add_external_trade", <<trade>>, add_external_trade(db, trade))

EditExternalTrade ==
    \E id \in TradeIds, trade \in Trades :
        Call("edit_external_trade", <<id, trade>>, edit_external_trade(db, id, trade))

DeleteExternalTrade ==
    \E id \in TradeIds :
        Call("delete_external_trade", <<id>>, delete_external_trade(db, id))

(***************************************************************************)
(* import_unencrypted: the call, then one action per statement.  Any       *)
(* statement that touches the disk or the engine may fail; the exception   *)
(* leaves the with block, if inside it, and propagates to the caller.      *)
(***************************************************************************)
ImportRaise(step, exc, fs) ==
    /\ files' = fs
    /\ pc' = "idle"
    /\ last' = [op |-> "import_unencrypted", step |-> step, ok |-> FALSE, exc |-> exc]

ImportUnencrypted ==
    \E data \in ImportData, password \in Passwords :
        /\ pc = "idle"
        /\ budget > 0
        /\ files.salt < MaxSalt
        /\ budget' = budget - 1
        /\ imp' = [data |-> data, password |-> password, found |-> files.rdb]
        /\ conn' = "closed"
        /\ pc' = ImportOrder[1]
        /\ last' = [op |-> "import_unencrypted", step |-> "call", ok |-> FALSE,
                    exc |-> "pending"]
        /\ UNCHANGED <<now, db, files>>

ImportCopy ==
    /\ pc = "copy"
    /\ \/ /\ files.rdb.kind # "absent"
          /\ files' = BackupCopy(files)
          /\ pc' = StepAfter("copy")
          /\ UNCHANGED last
       \/ /\ files.rdb.kind = "absent"
          /\ ImportRaise("copy", "FileNotFoundError", files)
       \/ ImportRaise("copy", "OSError", files)
    /\ UNCHANGED <<now, db, budget, conn, imp>>

ImportRemove ==
    /\ pc = "remove"
    /\ \/ /\ files.rdb.kind # "absent"
          /\ files' = RemoveOriginal(files)
          /\ pc' = StepAfter("remove")
          /\ UNCHANGED last
       \/ /\ files.rdb.kind = "absent"
          /\ ImportRaise("remove", "FileNotFoundError", files)
       \/ ImportRaise("remove", "OSError", files)
    /\ UNCHANGED <<now, db, budget, conn, imp>>

ImportWrite ==
    /\ pc = "write"
    /\ \/ /\ files' = WriteTemp(files, imp.data)
          /\ pc' = StepAfter("write")
          /\ UNCHANGED last
       \/ ImportRaise("write", "OSError", LeaveTempDir(files))
    /\ UNCHANGED <<now, db, budget, conn, imp>>

ImportConnectTemp ==
    /\ pc = "connect_temp"
    /\ \/ /\ conn' = "temp"
          /\ pc' = StepAfter("connect_temp")
          /\ UNCHANGED <<files, last>>
       \/ /\ ImportRaise("connect_temp", "DatabaseError", LeaveTempDir(files))
          /\ UNCHANGED conn
    /\ UNCHANGED <<now, db, budget, imp>>

ImportScript ==
    /\ pc = "script"
    /\ \/ /\ files.temp.kind = "plain"
          /\ files' = ExportEncrypted(files, imp.password)
          /\ pc' = StepAfter("script")
          /\ UNCHANGED last
       \/ ImportRaise("script", "DatabaseError", LeaveTempDir(files))
       \/ ImportRaise("script", "DatabaseError", LeaveTempDir(ExportPartial(files)))
    /\ UNCHANGED <<now, db, budget, conn, imp>>

ImportDisconnect ==
    /\ pc = "disconnect"
    /\ conn' = "closed"
    /\ files' = LeaveTempDir(files)
    /\ pc' = StepAfter("disconnect")
    /\ UNCHANGED <<now, db, last, budget, imp>>

ImportReconnect ==
    /\ pc = "reconnect"
    /\ \/ /\ files.rdb.kind = "encrypted"
          /\ conn' = "rdb"
          /\ db' = files.rdb.data
          /\ pc' = StepAfter("reconnect")
          /\ UNCHANGED <<files, last>>
       \/ /\ ImportRaise("reconnect", "DatabaseError", files)
          /\ UNCHANGED <<conn, db>>
    /\ UNCHANGED <<now, budget, imp>>

ImportRemoveBackup ==
    /\ pc = "remove_backup"
    /\ \/ /\ files.backup.kind # "absent"
          /\ files' = RemoveBackup(files)
          /\ pc' = StepAfter("remove_backup")
          /\ last' = [op |-> "import_unencrypted", step |-> "return", ok |-> TRUE,
                      exc |-> "none"]
       \/ ImportRaise("remove_backup", "OSError", files)
    /\ UNCHANGED <<now, db, budget, conn, imp>>

(***************************************************************************)
(* Specifications.  Init is the state after DBHandler(user_data_dir,       *)
(* username, password) created a new store.                                *)
(***************************************************************************)
InitWith(calls) ==
    /\ now = 1
    /\ db = NewDB
    /\ last = [op |-> "__init__", ok |-> TRUE, exc |-> "none"]
    /\ budget = calls
    /\ pc = "idle"
    /\ conn = "rdb"
    /\ files = [rdb |-> Encrypted(NewDB, "pw1", 1), backup |-> Absent, temp |-> Absent,
                salt |-> 1]
    /\ imp = [data |-> Garbage, password |-> "pw1", found |-> Absent]

(***************************************************************************)
(* Closing the handler and constructing a new one on the same directory.   *)
(* What was not committed is lost with the connection; a failed            *)
(* construction leaves no handler.                                         *)
(***************************************************************************)
Disconnect ==
    /\ pc = "idle"
    /\ conn = "rdb"
    /\ conn' = "closed"
    /\ last' = [op |-> "disconnect", before |-> db, ok |-> TRUE, exc |-> "none"]
    /\ UNCHANGED <<now, db, budget, pc, files, imp>>

Open ==
    \E password \in Passwords :
        /\ pc = "idle"
        /\ conn # "rdb"
        /\ files.rdb.kind = "absent" => files.salt < MaxSalt
        /\ LET r == DBHandler(files, password)
           IN  /\ files' = r.files
               /\ conn' = IF r.ok THEN "rdb" ELSE "closed"
               /\ db' = IF r.ok THEN r.files.rdb.data ELSE db
               /\ last' = [op |-> "DBHandler", args |-> <<password>>,
                           found |-> files.rdb, before |-> db,
                           ok |-> r.ok, exc |-> r.exc]
        /\ UNCHANGED <<now, budget, pc, imp>>

\* Every accessor of the store.
Init == InitWith(MaxCallsAll)

Next ==
    \/ Tick
    \/ UpdateLastDataUploadTs
    \/ UpdatePremiumSync
    \/ SetMainCurrency
    \/ SetSettings
    \/ AddToIgnoredAssets
    \/ RemoveFromIgnoredAssets
    \/ WriteOwnedTokens
    \/ AddMultipleBalances
    \/ AddMultipleLocationData
    \/ WriteBalancesData
    \/ AddBlockchainAccount
    \/ RemoveBlockchainAccount
    \/ AddFiatBalance
    \/ RemoveFiatBalance
    \/ AddExchange
    \/ RemoveExchange
    \/ SetRotkehlchenPremium
    \/ AddExternalTrade
    \/ EditExternalTrade
    \/ DeleteExternalTrade

Spec == Init /\ [][Next]_vars

\* The settings store.
InitSettings == InitWith(MaxCalls)

NextSettings ==
    \/ Tick
    \/ UpdateLastDataUploadTs
    \/ UpdatePremiumSync
    \/ SetMainCurrency
    \/ SetSettings
    \/ GetSettings

SpecSettings == InitSettings /\ [][NextSettings]_vars

(***************************************************************************)
(* The balances time series alone.                                         *)
(***************************************************************************)
InitBalances == InitWith(MaxCalls)

NextBalances ==
    \/ Tick
    \/ AddMultipleBalances
    \/ AddMultipleLocationData
    \/ WriteBalancesData

SpecBalances == InitBalances /\ [][NextBalances]_vars

\* The credentials.
InitCredentials == InitWith(MaxCalls)

NextCredentials ==
    \/ Tick
    \/ AddExchange
    \/ RemoveExchange
    \/ SetRotkehlchenPremium

SpecCredentials == InitCredentials /\ [][NextCredentials]_vars

\* Blockchain accounts.
InitAccounts == InitWith(MaxCalls)

NextAccounts ==
    \/ Tick
    \/ AddBlockchainAccount
    \/ RemoveBlockchainAccount

SpecAccounts == InitAccounts /\ [][NextAccounts]_vars

\* External trades.
InitTrades == InitWith(MaxCalls)

NextTrades ==
    \/ AddExternalTrade
    \/ EditExternalTrade
    \/ DeleteExternalTrade

SpecTrades == InitTrades /\ [][NextTrades]_vars

\* The multi-value settings.
InitMulti == InitWith(MaxCalls)

NextMulti ==
    \/ AddToIgnoredAssets
    \/ RemoveFromIgnoredAssets
    \/ WriteOwnedTokens

SpecMulti == InitMulti /\ [][NextMulti]_vars

\* The unencrypted import, on stores that differ in a setting.
InitImport == InitWith(MaxCalls)

NextImport ==
    \/ SetMainCurrency
    \/ ImportUnencrypted
    \/ ImportCopy
    \/ ImportRemove
    \/ ImportWrite
    \/ ImportConnectTemp
    \/ ImportScript
    \/ ImportDisconnect
    \/ ImportReconnect
    \/ ImportRemoveBackup

SpecImport == InitImport /\ [][NextImport]_vars

\* Stores closed and opened again, under the passphrase they were created
\* with or the one an import gave them.
InitOpen == InitWith(MaxCalls)

NextOpen ==
    \/ SetMainCurrency
    \/ Disconnect
    \/ Open
    \/ ImportUnencrypted
    \/ ImportCopy
    \/ ImportRemove
    \/ ImportWrite
    \/ ImportConnectTemp
    \/ ImportScript
    \/ ImportDisconnect
    \/ ImportReconnect
    \/ ImportRemoveBackup

SpecOpen == InitOpen /\ [][NextOpen]_vars

\* Writers of each kind of table, with the store closed and opened again in
\* between.
InitLifecycle == InitWith(MaxCallsAll)

NextLifecycle ==
    \/ SetMainCurrency
    \/ WriteOwnedTokens
    \/ WriteBalancesData
    \/ AddBlockchainAccount
    \/ AddFiatBalance
    \/ AddExchange
    \/ AddExternalTrade
    \/ EditExternalTrade
    \/ DeleteExternalTrade
    \/ Disconnect
    \/ Open

SpecLifecycle == InitLifecycle /\ [][NextLifecycle]_vars

(***************************************************************************)
(* The claims.                                                             *)
(***************************************************************************)
C1_MutatingCalls ==
    {"set_settings", "set_main_currency", "add_to_ignored_assets",
     "remove_from_ignored_assets", "write_owned_tokens", "add_multiple_balances",
     "add_multiple_location_data", "add_blockchain_account",
     "remove_blockchain_account", "add_fiat_balance", "remove_fiat_balance",
     "add_exchange", "remove_exchange", "add_external_trade", "edit_external_trade",
     "delete_external_trade"}

\* C1: after every successful mutating call other than set_rotkehlchen_premium,
\* get_last_write_ts() is the time of that call and is at least what it was
\* before the call.
C1_EveryWriteSetsLastWrite ==
    (last.op \in C1_MutatingCalls /\ last.ok) =>
        /\ get_last_write_ts(db) = last.at
        /\ get_last_write_ts(db) >= get_last_write_ts(last.before)

\* C2: set_rotkehlchen_premium upserts the reserved row, leaves every other
\* credential row and every other table as it found them, and leaves
\* last_write_ts (the settings table) unchanged.
C2_PremiumLeavesLastWrite ==
    last.op = "set_rotkehlchen_premium" =>
        /\ last.ok
        /\ get_last_write_ts(db) = get_last_write_ts(last.before)
        /\ db.settings = last.before.settings
        /\ get_rotkehlchen_premium(db) = <<last.args[1], last.args[2]>>
        /\ DeleteByName(db.user_credentials, "rotkehlchen")
               = DeleteByName(last.before.user_credentials, "rotkehlchen")
        /\ [db EXCEPT !.user_credentials = <<>>]
               = [last.before EXCEPT !.user_credentials = <<>>]

\* C2 witness: a second premium write on a store no other call has written:
\* last_write_ts is still 0 although the clock has moved.
C2_Witness ==
    /\ last.op = "set_rotkehlchen_premium"
    /\ get_rotkehlchen_premium(last.before) # None
    /\ get_rotkehlchen_premium(last.before) # get_rotkehlchen_premium(db)
    /\ last.at > 1
    /\ get_last_write_ts(db) = 0

\* The stored trades get_external_trades(from_ts, to_ts) is to return.
C3_InRange(r, from_ts, to_ts) ==
    /\ r.location = "external"
    /\ from_ts # None => from_ts[1] <= r.time
    /\ to_ts # None => r.time <= to_ts[1]

\* C3: for any optional bounds, 0 included, get_external_trades returns exactly
\* the stored external trades within the bounds, each once, in ascending order
\* of time.
C3_ExternalTradesInRange ==
    \A from_ts \in OptionalTimes, to_ts \in OptionalTimes :
        LET got == get_external_trades(db, from_ts, to_ts)
            want == {r \in Range(db.trades) : C3_InRange(r, from_ts, to_ts)}
        IN  /\ {g.id : g \in Range(got)} = {r.id : r \in want}
            /\ Len(got) = Cardinality(want)
            /\ \A i \in 1..Len(got), j \in 1..Len(got) :
                   i < j => got[i].timestamp <= got[j].timestamp
            /\ \A g \in Range(got) : \E r \in want :
                   /\ r.id = g.id
                   /\ r.time = g.timestamp
                   /\ r.location = g.location
                   /\ r.pair = g.pair

\* C4: get_exchange_secrets never has the key 'rotkehlchen', and its keys
\* are exactly the stored exchange names.
C4_SecretsExcludeReserved ==
    /\ "rotkehlchen" \notin DOMAIN get_exchange_secrets(db)
    /\ DOMAIN get_exchange_secrets(db)
           = {r[1] : r \in Range(db.user_credentials)} \ {"rotkehlchen"}

\* C5: get_premium_sync() is false while the key was never set, and after
\* update_premium_sync(b) it is b.
C5_PremiumSyncRoundTrip ==
    /\ SelectByName(db.settings, "premium_should_sync") = <<>>
           => get_premium_sync(db) = FALSE
    /\ last.op = "update_premium_sync" => get_premium_sync(db) = last.args[1]

\* C6: in import_unencrypted the backup holds the original file before the
\* original is removed or replaced, is on disk at every statement after the
\* copy, is still there when the new encrypted file has been written and
\* reconnected to, and is gone only when the call has returned.
C6_BackupOutlivesImport ==
    /\ (pc # "idle" /\ files.rdb # imp.found) => files.backup = imp.found
    /\ pc \notin {"idle", "copy"} =>
           /\ files.backup = imp.found
           /\ files.backup.kind # "absent"
    /\ pc = "remove_backup" =>
           /\ conn = "rdb"
           /\ files.rdb = Encrypted(imp.data.data, imp.password, files.salt)
           /\ db = imp.data.data
    /\ (pc = "idle" /\ last.op = "import_unencrypted" /\ last.ok) =>
           /\ files.backup = Absent
           /\ conn = "rdb"

\* C6 witness: an import that returned: the store now holds the imported
\* tables under the new passphrase and the backup is gone.
C6_Witness ==
    /\ pc = "idle"
    /\ last.op = "import_unencrypted"
    /\ last.ok
    /\ imp.found.kind = "encrypted"
    /\ imp.found.data # ImportedDB
    /\ files.rdb = Encrypted(ImportedDB, "pw2", files.salt)
    /\ files.backup = Absent

C7_LaterSteps == {"write", "connect_temp", "script", "reconnect"}

\* C7: when a statement of import_unencrypted after the backup copy fails,
\* the call raises with the backup on disk, holding the file the call found
\* at rotkehlchen.db, and rotkehlchen.db is not that file again.
C7_FailedImportKeepsBackup ==
    (pc = "idle" /\ last.op = "import_unencrypted" /\ ~last.ok
        /\ last.step \in C7_LaterSteps) =>
        /\ last.exc \notin {"none", "pending"}
        /\ files.backup = imp.found
        /\ files.backup.kind # "absent"
        /\ files.rdb # files.backup

\* C7 witness: the export script failed half way: a partial rotkehlchen.db,
\* and the encrypted original in the backup.
C7_Witness ==
    /\ pc = "idle"
    /\ last.op = "import_unencrypted"
    /\ last.step = "script"
    /\ last.exc = "DatabaseError"
    /\ files.rdb.kind = "partial"
    /\ files.backup.kind = "encrypted"
    /\ files.backup = imp.found

C8_Matches(d, blockchain, account) ==
    \E i \in 1..Len(d.blockchain_accounts) :
        d.blockchain_accounts[i] = <<blockchain, account>>

\* C8: remove_blockchain_account on a pair with no row raises InputError and
\* leaves blockchain_accounts, last_write_ts and the committed file as they
\* were.
C8_RemoveMissingAccountFails ==
    (last.op = "remove_blockchain_account"
        /\ ~C8_Matches(last.before, last.args[1], last.args[2])) =>
        /\ last.exc = "InputError"
        /\ db.blockchain_accounts = last.before.blockchain_accounts
        /\ get_last_write_ts(db) = get_last_write_ts(last.before)
        /\ db = last.before
        /\ files.rdb.data = last.before

\* C8 witness: the account is stored under the other blockchain only, and the
\* store has been written before.
C8_Witness ==
    /\ last.op = "remove_blockchain_account"
    /\ last.exc = "InputError"
    /\ last.args = <<"ETH", "0xabc">>
    /\ C8_Matches(db, "BTC", "0xabc")
    /\ get_last_write_ts(db) > 0
    /\ get_last_write_ts(db) < last.at

C9_AccountsOf(d, blockchain) ==
    IF blockchain \in DOMAIN get_blockchain_accounts(d)
    THEN get_blockchain_accounts(d)[blockchain]
    ELSE <<>>

\* C9: remove_blockchain_account on a stored pair succeeds; afterwards the
\* account is not listed under that blockchain, and every other row, the same
\* account under another blockchain included, is there in the same order.
C9_RemoveStoredAccount ==
    (last.op = "remove_blockchain_account"
        /\ C8_Matches(last.before, last.args[1], last.args[2])) =>
        /\ last.ok
        /\ \A i \in 1..Len(C9_AccountsOf(db, last.args[1])) :
               C9_AccountsOf(db, last.args[1])[i] # last.args[2]
        /\ db.blockchain_accounts
               = SelectSeq(last.before.blockchain_accounts, LAMBDA r : r # last.args)
        /\ \A b \in Blockchains \ {last.args[1]} :
               C9_AccountsOf(db, b) = C9_AccountsOf(last.before, b)
        /\ C9_AccountsOf(db, last.args[1])
               = SelectSeq(C9_AccountsOf(last.before, last.args[1]),
                           LAMBDA a : a # last.args[2])

\* C9 witness: the removed account stays under the other blockchain, between
\* two rows that stay too.
C9_Witness ==
    /\ last.op = "remove_blockchain_account"
    /\ last.ok
    /\ last.args = <<"ETH", "0xabc">>
    /\ Len(last.before.blockchain_accounts) = 3
    /\ db.blockchain_accounts = << <<"BTC", "0xabc">>, <<"ETH", "0xdef">> >>

C10_NoSuchTrade(d, trade_id) == \A i \in 1..Len(d.trades) : d.trades[i].id # trade_id

C11_DeleteExternalTrade ==
    last.op = "delete_external_trade" =>
        /\ last.exc = "none"
        /\ IF C10_NoSuchTrade(last.before, last.args[1])
           THEN /\ last.val[1] = FALSE
                /\ last.val[2] # ""
                /\ db = last.before
                /\ files.rdb.data = last.before
           ELSE /\ last.val = <<TRUE, "">>
                /\ db.trades = SelectSeq(last.before.trades,
                                          LAMBDA r : r.id # last.args[1])
                /\ Len(db.trades) = Len(last.before.trades) - 1
                /\ [db EXCEPT !.trades = <<>>] = [last.before EXCEPT !.trades = <<>>]
                /\ files.rdb.data = db

\* C11 witness: the first of two stored trades is deleted and the second,
\* of a larger id, stays.
C11_Witness ==
    /\ last.op = "delete_external_trade"
    /\ last.val = <<TRUE, "">>
    /\ last.args[1] = 1
    /\ Len(last.before.trades) = 2
    /\ Len(db.trades) = 1
    /\ db.trades[1].id = 2

\* C12: after write_owned_tokens(T2), whatever list was written before,
\* get_owned_tokens() is T2, element by element.
C12_OwnedTokensReplaced ==
    last.op = "write_owned_tokens" =>
        /\ last.ok
        /\ get_owned_tokens(db) = last.args[1]

\* C12 witness: write_owned_tokens(T2) on a store holding a written list T1
\* with a token that is not in T2.
C12_Witness ==
    /\ last.op = "write_owned_tokens"
    /\ get_owned_tokens(last.before) = <<"GNO", "BTC">>
    /\ last.args[1] = <<"BTC">>
    /\ get_owned_tokens(db) = <<"BTC">>

C19_Without(values, asset) == SelectSeq(values, LAMBDA v : v # asset)

\* C19: remove_from_ignored_assets(asset) raises nothing; when the asset is
\* not ignored get_ignored_assets() is unchanged, and when it is, every row
\* of that value goes and the other ignored assets stay, in order.
C19_RemoveIgnoredAsset ==
    last.op = "remove_from_ignored_assets" =>
        /\ last.ok
        /\ last.exc = "none"
        /\ (\A i \in 1..Len(get_ignored_assets(last.before)) :
                get_ignored_assets(last.before)[i] # last.args[1])
               => get_ignored_assets(db) = get_ignored_assets(last.before)
        /\ \A i \in 1..Len(get_ignored_assets(db)) :
               get_ignored_assets(db)[i] # last.args[1]
        /\ get_ignored_assets(db)
               = C19_Without(get_ignored_assets(last.before), last.args[1])

\* C19 witness: the asset was ignored twice, with another asset between.
C19_Witness ==
    /\ last.op = "remove_from_ignored_assets"
    /\ last.args[1] = "BTC"
    /\ get_ignored_assets(last.before) = <<"BTC", "GNO", "BTC">>
    /\ get_ignored_assets(db) = <<"GNO">>

\* C20: write_owned_tokens leaves get_ignored_assets() as it was, and
\* add_to_ignored_assets and remove_from_ignored_assets leave
\* get_owned_tokens() as it was.
C20_CategoriesIsolated ==
    /\ last.op = "write_owned_tokens"
           => get_ignored_assets(db) = get_ignored_assets(last.before)
    /\ last.op \in {"add_to_ignored_assets", "remove_from_ignored_assets"}
           => get_owned_tokens(db) = get_owned_tokens(last.before)

\* C20 witness: a string that is an owned token and an ignored asset is
\* removed from the ignored assets and is still an owned token.
C20_Witness ==
    /\ last.op = "remove_from_ignored_assets"
    /\ last.args[1] = "BTC"
    /\ get_ignored_assets(last.before) = <<"BTC">>
    /\ get_ignored_assets(db) = <<>>
    /\ get_owned_tokens(db) = <<"BTC">>

\* C14: add_exchange with a name outside the supported-exchange set raises
\* InputError and leaves user_credentials, last_write_ts and the committed
\* file as they were.
C14_UnsupportedExchangeRefused ==
    (last.op = "add_exchange" /\ last.args[1] \notin SUPPORTED_EXCHANGES) =>
        /\ last.exc = "InputError"
        /\ db.user_credentials = last.before.user_credentials
        /\ get_last_write_ts(db) = get_last_write_ts(last.before)
        /\ db = last.before
        /\ files.rdb.data = last.before

\* C14 witness: an unsupported name on a store that holds an exchange and has
\* been written at an earlier time.
C14_Witness ==
    /\ last.op = "add_exchange"
    /\ last.args[1] = "nosuchexchange"
    /\ last.exc = "InputError"
    /\ NameTaken(db.user_credentials, "kraken")
    /\ get_last_write_ts(db) > 0
    /\ get_last_write_ts(db) < last.at

\* C18: every stored credential name is 'rotkehlchen' or a supported
\* exchange, no name has two rows, add_exchange leaves the reserved row as it
\* was and set_rotkehlchen_premium leaves every other row as it was.
C18_CredentialNames ==
    /\ \A i \in 1..Len(db.user_credentials) :
           /\ db.user_credentials[i][1] \in SUPPORTED_EXCHANGES \cup {"rotkehlchen"}
           /\ \A j \in 1..Len(db.user_credentials) :
                  db.user_credentials[i][1] = db.user_credentials[j][1] => i = j
    /\ last.op = "add_exchange" =>
           SelectByName(db.user_credentials, "rotkehlchen")
               = SelectByName(last.before.user_credentials, "rotkehlchen")
    /\ last.op = "set_rotkehlchen_premium" =>
           DeleteByName(db.user_credentials, "rotkehlchen")
               = DeleteByName(last.before.user_credentials, "rotkehlchen")

\* C18 witness: add_exchange('rotkehlchen', ...) on a store that holds the
\* reserved row and an exchange.
C18_Witness ==
    /\ last.op = "add_exchange"
    /\ last.args[1] = "rotkehlchen"
    /\ last.exc = "InputError"
    /\ NameTaken(db.user_credentials, "rotkehlchen")
    /\ NameTaken(db.user_credentials, "poloniex")
    /\ Len(db.user_credentials) = 2

\* The stored text of a setting, as get_settings returns it.
C13_Stored(d, key) ==
    LET text == SelectValue(d.settings, key)[1][1]
    IN  IF key = "ui_floating_precision" THEN str(int(text)) ELSE repr(text)

\* C13: get_settings returns the default of historical_data_start,
\* eth_rpc_port and ui_floating_precision when the key is not stored and the
\* stored value when it is, and leaves the settings table and the committed
\* file as they were.
C13_DefaultsNotPersisted ==
    last.op = "get_settings" =>
        /\ db = last.before
        /\ files.rdb.data = last.before
        /\ \A key \in DOMAIN SettingDefaults :
               /\ key \in DOMAIN last.val
               /\ last.val[key] =
                      IF Len(SelectValue(last.before.settings, key)) = 0
                      THEN SettingDefaults[key]
                      ELSE C13_Stored(last.before, key)
        /\ SettingDefaults.historical_data_start = "'01/08/2015'"
        /\ SettingDefaults.eth_rpc_port = "'8545'"
        /\ SettingDefaults.ui_floating_precision = "2"

\* C13 witness: get_settings on a store where eth_rpc_port was set and
\* ui_floating_precision never was.
C13_Witness ==
    /\ last.op = "get_settings"
    /\ Len(SelectValue(db.settings, "ui_floating_precision")) = 0
    /\ SelectValue(db.settings, "eth_rpc_port") = << <<"8546">> >>
    /\ last.val["ui_floating_precision"] = "2"
    /\ last.val["eth_rpc_port"] = "'8546'"
    /\ last.val["historical_data_start"] = "'01/01/2016'"

\* C17: write_balances_data appends one timed_balances row per asset of the
\* snapshot and one timed_location_data row per location followed by a
\* 'total' row of net_usd, every one of them with the time of the call, and
\* both tables are committed when it returns.
C17_SnapshotRows ==
    last.op = "write_balances_data" =>
        LET data == last.args[1]
            nb == Len(last.before.timed_balances)
            nl == Len(last.before.timed_location_data)
        IN  /\ last.ok
            /\ Len(db.timed_balances) = nb + Len(data.assets)
            /\ SubSeq(db.timed_balances, 1, nb) = last.before.timed_balances
            /\ \A i \in 1..Len(data.assets) :
                   db.timed_balances[nb + i] =
                       <<last.at, data.assets[i][1], str(data.assets[i][2]),
                         str(data.assets[i][3])>>
            /\ Len(db.timed_location_data) = nl + Len(data.location) + 1
            /\ SubSeq(db.timed_location_data, 1, nl) = last.before.timed_location_data
            /\ \A i \in 1..Len(data.location) :
                   db.timed_location_data[nl + i] =
                       <<last.at, data.location[i][1], str(data.location[i][2])>>
            /\ db.timed_location_data[nl + Len(data.location) + 1] =
                   <<last.at, "total", str(data.net_usd)>>
            /\ files.rdb.data.timed_balances = db.timed_balances
            /\ files.rdb.data.timed_location_data = db.timed_location_data

\* C17 witness: a snapshot of two assets and two locations written at a
\* later time onto tables that already hold rows.
C17_Witness ==
    /\ last.op = "write_balances_data"
    /\ Len(last.args[1].assets) = 2
    /\ Len(last.args[1].location) = 2
    /\ Len(last.before.timed_balances) > 0
    /\ Len(last.before.timed_location_data) > 0
    /\ last.at > 1
    /\ Len(db.timed_balances) = Len(last.before.timed_balances) + 2
    /\ Len(db.timed_location_data) = Len(last.before.timed_location_data) + 3

\* C15: constructing the handler on an encrypted file with a passphrase
\* other than the file's raises AuthenticationError, leaves the file as it
\* was found and leaves no open connection.
C15_WrongPassphraseRefused ==
    (last.op = "DBHandler" /\ last.found.kind = "encrypted"
                          /\ last.args[1] # last.found.key) =>
        /\ ~last.ok
        /\ last.exc = "AuthenticationError"
        /\ files.rdb = last.found
        /\ conn # "rdb"

\* C15 witness: a store that an import re-keyed and filled, opened with the
\* passphrase it had before.
C15_Witness ==
    /\ last.op = "DBHandler"
    /\ last.found.kind = "encrypted"
    /\ last.found.key = "pw2"
    /\ last.args[1] = "pw1"
    /\ last.exc = "AuthenticationError"
    /\ get_main_currency(last.found.data) = "EUR"
    /\ files.rdb = last.found

\* C16: a store that was closed and is opened again with its passphrase
\* holds the settings and the rows of every table that the closed handler
\* last showed, and between calls an open handler shows nothing that is not
\* committed to the file.
C16_RoundTripDurability ==
    /\ (pc = "idle" /\ conn = "rdb") => db = files.rdb.data
    /\ (last.op = "DBHandler" /\ last.ok /\ last.found.kind = "encrypted") =>
           /\ last.args[1] = last.found.key
           /\ db = last.before
           /\ files.rdb.data = last.before

\* C16 witness: a store whose two calls left it one trade, closed and opened
\* again.
C16_Witness ==
    /\ last.op = "DBHandler"
    /\ last.ok
    /\ last.found.kind = "encrypted"
    /\ budget = 0
    /\ Len(last.before.trades) = 1
    /\ last.before.trades[1].time > 1
    /\ last.before.trades[1].location = "kraken"
    /\ db = last.before

====
